---- MODULE Spec2Model ----
(***************************************************************************)
(* Model of the Automate.io backend: the CEO agent's plan repair           *)
(* (src/Backend/agents/Ceo.py), its currency normaliser safe_float and the *)
(* request flow of analyze_requirements.                                   *)
(*                                                                         *)
(* Python values are tagged records [k |-> kind, v |-> payload]:           *)
(*   null, bool, int (a TLC integer), float (an IEEE-754 double, below),   *)
(*   str (a sequence of pieces of text), list (a sequence of values),      *)
(*   dict (a function from its keys to values).                            *)
(* A Python float is modelled bit for bit: a finite non-negative double is *)
(* [k |-> "fin", m |-> mantissa, e |-> exponent] with value m * 2^e, the   *)
(* mantissa a 53-bit natural held in limbs of 15 bits, least significant   *)
(* first (TLC integers are 32 bits wide); zero is the empty mantissa with  *)
(* exponent 0.  Arithmetic rounds to nearest, ties to even, as the C       *)
(* double arithmetic under CPython does.  The budgets of the model are     *)
(* non-negative and far from the overflow and subnormal ranges.            *)
(***************************************************************************)
EXTENDS Integers, Sequences, FiniteSets, TLC

(***************************************************************************)
(* Naturals of arbitrary size, in limbs of 15 bits.                        *)
(***************************************************************************)
BASE == 32768

LimbBits == 15

MantBits == 53

RECURSIVE BNorm(_)
BNorm(a) ==
    IF a = <<>> THEN <<>>
    ELSE IF a[Len(a)] = 0 THEN BNorm(SubSeq(a, 1, Len(a) - 1))
    ELSE a

RECURSIVE BFromInt(_)
BFromInt(n) ==
    IF n = 0 THEN <<>> ELSE <<n % BASE>> \o BFromInt(n \div BASE)

RECURSIVE BToInt(_)
BToInt(a) ==
    IF a = <<>> THEN 0 ELSE a[1] + BASE * BToInt(Tail(a))

RECURSIVE BAddC(_, _, _)
BAddC(a, b, c) ==
    IF a = <<>> /\ b = <<>> THEN (IF c = 0 THEN <<>> ELSE <<c>>)
    ELSE LET x == IF a = <<>> THEN 0 ELSE a[1]
             y == IF b = <<>> THEN 0 ELSE b[1]
             s == x + y + c
         IN  <<s % BASE>> \o BAddC(IF a = <<>> THEN <<>> ELSE Tail(a),
                                   IF b = <<>> THEN <<>> ELSE Tail(b),
                                   s \div BASE)

BAdd(a, b) == BAddC(a, b, 0)

RECURSIVE BMulSmallC(_, _, _)
BMulSmallC(a, k, c) ==
    IF a = <<>> THEN (IF c = 0 THEN <<>> ELSE <<c>>)
    ELSE LET s == a[1] * k + c
         IN  <<s % BASE>> \o BMulSmallC(Tail(a), k, s \div BASE)

BMulSmall(a, k) == IF k = 0 THEN <<>> ELSE BMulSmallC(a, k, 0)

BShiftLimbs(a, n) ==
    IF a = <<>> THEN <<>> ELSE [i \in 1..n |-> 0] \o a

RECURSIVE BMul(_, _)
BMul(a, b) ==
    IF a = <<>> \/ b = <<>> THEN <<>>
    ELSE BAdd(BMulSmall(b, a[1]), BShiftLimbs(BMul(Tail(a), b), 1))

BShl(a, n) ==
    BShiftLimbs(BMulSmall(a, 2 ^ (n % LimbBits)), n \div LimbBits)

BShr(a, n) ==
    LET q == n \div LimbBits
        p == 2 ^ (n % LimbBits)
        h == IF q >= Len(a) THEN <<>> ELSE SubSeq(a, q + 1, Len(a))
    IN  BNorm([i \in 1..Len(h) |->
                  (h[i] \div p)
                  + (IF i < Len(h) THEN (h[i + 1] % p) * (BASE \div p) ELSE 0)])

RECURSIVE IntBitLen(_)
IntBitLen(n) == IF n = 0 THEN 0 ELSE 1 + IntBitLen(n \div 2)

BBitLen(a) ==
    IF a = <<>> THEN 0 ELSE LimbBits * (Len(a) - 1) + IntBitLen(a[Len(a)])

BBit(a, i) ==
    IF i \div LimbBits >= Len(a) THEN 0
    ELSE (a[(i \div LimbBits) + 1] \div (2 ^ (i % LimbBits))) % 2

BOdd(a) == a # <<>> /\ a[1] % 2 = 1

\* Long division of a by the integer d (0 < d <= 2^16), limb by limb from the
\* most significant limb: <<quotient, remainder>>.
RECURSIVE BDivMod(_, _)
BDivMod(a, d) ==
    IF a = <<>> THEN << <<>>, 0 >>
    ELSE LET hi  == BDivMod(Tail(a), d)
             cur == hi[2] * BASE + a[1]
         IN  << IF cur \div d = 0 /\ hi[1] = <<>> THEN <<>>
                ELSE <<cur \div d>> \o hi[1],
                cur % d >>

(***************************************************************************)
(* IEEE-754 doubles (CPython float).                                       *)
(***************************************************************************)
DZero == [k |-> "fin", m |-> <<>>, e |-> 0]

DNaN == [k |-> "nan"]

DInf == [k |-> "inf"]

\* The double nearest to mag * 2^e (plus a non-zero fraction below the last
\* bit of mag when sticky), ties to even.
DRound(mag, sticky, e) ==
    LET n == BBitLen(mag)
    IN  IF n = 0 THEN DZero
        ELSE IF n <= MantBits
        THEN [k |-> "fin", m |-> BShl(mag, MantBits - n), e |-> e - (MantBits - n)]
        ELSE LET r     == n - MantBits
                 q1    == BShr(mag, r - 1)
                 guard == BOdd(q1)
                 rest  == sticky \/ BShl(q1, r - 1) # mag
                 q     == BShr(q1, 1)
                 up    == guard /\ (rest \/ BOdd(q))
                 q2    == IF up THEN BAdd(q, <<1>>) ELSE q
             IN  IF BBitLen(q2) > MantBits
                 THEN [k |-> "fin", m |-> BShr(q2, 1), e |-> e + r + 1]
                 ELSE [k |-> "fin", m |-> q2, e |-> e + r]

DFromInt(n) == DRound(BFromInt(n), FALSE, 0)

DMul(a, b) ==
    IF a.k = "nan" \/ b.k = "nan" THEN DNaN
    ELSE IF a.k = "inf" \/ b.k = "inf"
    THEN (IF a = DZero \/ b = DZero THEN DNaN ELSE DInf)
    ELSE DRound(BMul(a.m, b.m), FALSE, a.e + b.e)

DAdd(a, b) ==
    IF a.k = "nan" \/ b.k = "nan" THEN DNaN
    ELSE IF a.k = "inf" \/ b.k = "inf" THEN DInf
    ELSE IF a = DZero THEN b
    ELSE IF b = DZero THEN a
    ELSE LET lo == IF a.e <= b.e THEN a ELSE b
             hi == IF a.e <= b.e THEN b ELSE a
         IN  DRound(BAdd(lo.m, BShl(hi.m, hi.e - lo.e)), FALSE, lo.e)

\* a / d for an integer d, 0 < d <= 2^16.
DivGuardBits == 32

DDivInt(a, d) ==
    IF a.k # "fin" THEN a
    ELSE LET qr == BDivMod(BShl(a.m, DivGuardBits), d)
         IN  DRound(qr[1], qr[2] # 0, a.e - DivGuardBits)

\* int(x): truncation toward zero of a finite double below 2^31.
DTrunc(a) ==
    IF a = DZero THEN 0
    ELSE IF a.e >= 0 THEN BToInt(BShl(a.m, a.e))
    ELSE BToInt(BShr(a.m, 0 - a.e))

(***************************************************************************)
(* Python values.                                                          *)
(***************************************************************************)
None == [k |-> "null"]

JBool(b) == [k |-> "bool", v |-> b]

JInt(n) == [k |-> "int", v |-> n]

JFloat(d) == [k |-> "float", v |-> d]

JStr(s) == [k |-> "str", v |-> s]

JList(s) == [k |-> "list", v |-> s]

JDict(f) == [k |-> "dict", v |-> f]

EmptyDict == JDict([x \in {} |-> None])

IsDict(x) == x.k = "dict"

IsList(x) == x.k = "list"

IsStr(x) == x.k = "str"

\* key in d
HasKey(d, key) == key \in DOMAIN d.v

\* d.get(key): None when the key is absent
Get(d, key) == IF key \in DOMAIN d.v THEN d.v[key] ELSE None

\* d.get(key, dflt)
GetOr(d, key, dflt) == IF key \in DOMAIN d.v THEN d.v[key] ELSE dflt

\* d[key] = val
SetItem(d, key, val) ==
    JDict([x \in (DOMAIN d.v) \cup {key} |-> IF x = key THEN val ELSE d.v[x]])

\* d.setdefault(key, val)
SetDefault(d, key, val) == IF key \in DOMAIN d.v THEN d ELSE SetItem(d, key, val)

\* bool(x)
Truthy(x) ==
    CASE x.k = "null"  -> FALSE
      [] x.k = "bool"  -> x.v
      [] x.k = "int"   -> x.v # 0
      [] x.k = "float" -> x.v # DZero
      [] x.k = "str"   -> x.v # <<>>
      [] x.k = "list"  -> x.v # <<>>
      [] x.k = "dict"  -> DOMAIN x.v # {}

Max(a, b) == IF a >= b THEN a ELSE b

(***************************************************************************)
(* Text.  A str is a sequence of pieces; text that the code inspects       *)
(* (budget, channels) is given one character per piece, and the string     *)
(* literals of the source are single pieces.                               *)
(***************************************************************************)
Digits == <<"0", "1", "2", "3", "4", "5", "6", "7", "8", "9">>

UpperCase == <<"A", "B", "C", "D", "E", "F", "G", "H", "I", "J", "K", "L", "M",
               "N", "O", "P", "Q", "R", "S", "T", "U", "V", "W", "X", "Y", "Z">>

LowerCase == <<"a", "b", "c", "d", "e", "f", "g", "h", "i", "j", "k", "l", "m",
               "n", "o", "p", "q", "r", "s", "t", "u", "v", "w", "x", "y", "z">>

WhiteSpace == {" ", "\t", "\n", "\r"}

IsDigit(c) == \E i \in 1..10 : Digits[i] = c

DigitVal(c) == (CHOOSE i \in 1..10 : Digits[i] = c) - 1

\* str.lower()
LowerChar(c) ==
    IF \E i \in 1..26 : UpperCase[i] = c
    THEN LowerCase[CHOOSE i \in 1..26 : UpperCase[i] = c]
    ELSE c

Lower(s) == [i \in 1..Len(s) |-> LowerChar(s[i])]

\* str.strip()
RECURSIVE LStrip(_)
LStrip(s) ==
    IF s # <<>> /\ s[1] \in WhiteSpace THEN LStrip(Tail(s)) ELSE s

RECURSIVE RStrip(_)
RStrip(s) ==
    IF s # <<>> /\ s[Len(s)] \in WhiteSpace
    THEN RStrip(SubSeq(s, 1, Len(s) - 1)) ELSE s

Strip(s) == RStrip(LStrip(s))

\* sub in s
Contains(s, sub) ==
    \E i \in 1..(Len(s) - Len(sub) + 1) : SubSeq(s, i, i + Len(sub) - 1) = sub

\* s.replace(old, new): every non-overlapping occurrence, left to right
RECURSIVE Replace(_, _, _)
Replace(s, old, new) ==
    IF Len(s) < Len(old) THEN s
    ELSE IF SubSeq(s, 1, Len(old)) = old
    THEN new \o Replace(SubSeq(s, Len(old) + 1, Len(s)), old, new)
    ELSE <<s[1]>> \o Replace(Tail(s), old, new)

\* s.split(sep) for a one-character separator: a sequence of texts
RECURSIVE Split(_, _)
Split(s, sep) ==
    IF \A i \in 1..Len(s) : s[i] # sep THEN <<s>>
    ELSE LET i == CHOOSE j \in 1..Len(s) :
                    s[j] = sep /\ \A h \in 1..(j - 1) : s[h] # sep
         IN  <<SubSeq(s, 1, i - 1)>> \o Split(SubSeq(s, i + 1, Len(s)), sep)

\* str(n) for an integer n >= 0
RECURSIVE IntToText(_)
IntToText(n) ==
    IF n < 10 THEN <<Digits[n + 1]>>
    ELSE IntToText(n \div 10) \o <<Digits[(n % 10) + 1]>>

\* str(x) as an f-string renders it, for the kinds the requirements hold
PyStr(x) ==
    CASE x.k = "str"  -> x.v
      [] x.k = "null" -> <<"None">>
      [] x.k = "bool" -> IF x.v THEN <<"True">> ELSE <<"False">>
      [] x.k = "int"  -> IntToText(x.v)

(***************************************************************************)
(* float(text): the decimal forms digits[.digits], "nan", "inf" and        *)
(* "infinity"; every other text of the model raises ValueError.  At most   *)
(* MaxFracDigits digits follow the point, and the digits stay below 2^53,  *)
(* so that the quotient digits / 10^f is the correctly rounded value.      *)
(***************************************************************************)
MaxFracDigits == 4

RECURSIVE ParseNat(_)
ParseNat(s) ==
    IF s = <<>> THEN <<>>
    ELSE BAdd(BMulSmall(ParseNat(SubSeq(s, 1, Len(s) - 1)), 10),
              BFromInt(DigitVal(s[Len(s)])))

ValueError == [ok |-> FALSE]

Parsed(d) == [ok |-> TRUE, v |-> d]

ParseDecimal(s) ==
    LET dots == {i \in 1..Len(s) : s[i] = "."}
        p    == IF dots = {} THEN Len(s) + 1 ELSE CHOOSE i \in dots : TRUE
        ip   == SubSeq(s, 1, p - 1)
        fp   == SubSeq(s, p + 1, Len(s))
    IN  IF \/ Cardinality(dots) > 1
           \/ ip \o fp = <<>>
           \/ \E i \in 1..Len(ip \o fp) : ~IsDigit((ip \o fp)[i])
           \/ Len(fp) > MaxFracDigits
        THEN ValueError
        ELSE Parsed(DDivInt(DRound(ParseNat(ip \o fp), FALSE, 0), 10 ^ Len(fp)))

PyFloat(text) ==
    LET s == Lower(Strip(text))
    IN  IF s = <<"n", "a", "n">> THEN Parsed(DNaN)
        ELSE IF s = <<"i", "n", "f">>
                \/ s = <<"i", "n", "f", "i", "n", "i", "t", "y">> THEN Parsed(DInf)
        ELSE ParseDecimal(s)

(***************************************************************************)
(* safe_float (Ceo.py:137)                                                 *)
(***************************************************************************)
DefaultBudget == 100000

Lakh == 100000

Crore == 10000000

safe_float_str(text) ==
    LET value == Lower(Strip(text))
        lkh   == <<"l", "k", "h">>
        lakh  == <<"l", "a", "k", "h">>
        cr    == <<"c", "r">>
        crore == <<"c", "r", "o", "r", "e">>
    IN  IF Contains(value, lkh) \/ Contains(value, lakh)
        THEN LET num == PyFloat(Strip(Replace(Replace(value, lkh, <<>>), lakh, <<>>)))
             IN  IF num.ok THEN DMul(num.v, DFromInt(Lakh)) ELSE DFromInt(DefaultBudget)
        ELSE IF Contains(value, cr) \/ Contains(value, crore)
        THEN LET num == PyFloat(Strip(Replace(Replace(value, cr, <<>>), crore, <<>>)))
             IN  IF num.ok THEN DMul(num.v, DFromInt(Crore)) ELSE DFromInt(DefaultBudget)
        ELSE LET num == PyFloat(value)
             IN  IF num.ok THEN num.v ELSE DFromInt(DefaultBudget)

safe_float(value) ==
    CASE value.k = "null"  -> DFromInt(DefaultBudget)
      [] value.k = "int"   -> DFromInt(value.v)
      [] value.k = "bool"  -> DFromInt(IF value.v THEN 1 ELSE 0)
      [] value.k = "float" -> value.v
      [] value.k = "str"   -> safe_float_str(value.v)
      [] OTHER             -> DFromInt(DefaultBudget)

(***************************************************************************)
(* CEOAgent._validate_and_fix_plan (Ceo.py:386)                            *)
(*                                                                         *)
(* The repair runs as a chain of steps over [exc, plan]: exc is "none"     *)
(* while no exception was raised, and a raised exception stops the chain   *)
(* with the plan as it stood.                                              *)
(***************************************************************************)
S(lit) == JStr(<<lit>>)

Ok(plan) == [exc |-> "none", plan |-> plan]

Raise(exc, plan) == [exc |-> exc, plan |-> plan]

\* The float literals 0.15, 0.25, 0.50 and 0.10 of the source.
RndShare == DDivInt(DFromInt(15), 100)

ContentShare == DDivInt(DFromInt(25), 100)

AdsShare == DDivInt(DFromInt(50), 100)

ToolsShare == DDivInt(DFromInt(10), 100)

Components == <<"rnd_research", "content_creation", "ads_paid", "tools_tech">>

Share(c) ==
    CASE c = "rnd_research"     -> RndShare
      [] c = "content_creation" -> ContentShare
      [] c = "ads_paid"         -> AdsShare
      [] c = "tools_tech"       -> ToolsShare

\* Ceo.py:390-391
EnsureBudgetAllocation(plan) ==
    IF ~IsDict(plan) THEN Raise("TypeError", plan)
    ELSE IF ~HasKey(plan, "budget_allocation")
    THEN Ok(SetItem(plan, "budget_allocation", EmptyDict))
    ELSE Ok(plan)

\* Ceo.py:393  plan["budget_allocation"]["total"] = budget
StampTotal(plan, budget) ==
    IF ~IsDict(plan.v["budget_allocation"]) THEN Raise("TypeError", plan)
    ELSE Ok(SetItem(plan, "budget_allocation",
                    SetItem(plan.v["budget_allocation"], "total", JFloat(budget))))

\* Ceo.py:395-396
StampInsights(plan, insights) ==
    IF Truthy(insights) THEN Ok(SetItem(plan, "conversation_insights", insights))
    ELSE Ok(plan)

DefaultKeys ==
    <<"project_name", "strategy_summary", "executive_summary", "channels_priority",
      "timeline_days", "should_trigger_rnd", "should_trigger_marketing",
      "success_probability">>

DefaultTimeline == 14

\* Ceo.py:402  the channel list of the requirements, or the fixed pair
DefaultChannels(requirements) ==
    IF Truthy(Get(requirements, "channels"))
    THEN LET parts == Split(GetOr(requirements, "channels", JStr(<<>>)).v, ",")
         IN  JList([i \in 1..Len(parts) |-> JStr(Strip(parts[i]))])
    ELSE JList(<<S("LinkedIn"), S("YouTube")>>)

\* Ceo.py:398-407
Defaults(requirements, key) ==
    CASE key = "project_name" ->
           JStr(PyStr(GetOr(requirements, "product_service", S("Campaign")))
                \o <<" Strategic Plan">>)
      [] key = "strategy_summary" ->
           S("Multi-channel marketing campaign with data-driven approach.")
      [] key = "executive_summary" ->
           JStr(<<"Comprehensive marketing campaign for ">>
                \o PyStr(Get(requirements, "product_service"))
                \o <<" targeting ">>
                \o PyStr(Get(requirements, "target_audience")) \o <<".">>)
      [] key = "channels_priority" -> DefaultChannels(requirements)
      [] key = "timeline_days" -> JInt(DefaultTimeline)
      [] key = "should_trigger_rnd" -> JBool(TRUE)
      [] key = "should_trigger_marketing" -> JBool(TRUE)
      [] key = "success_probability" -> S("Medium")

\* As FillDefault, only a key that the plan lacks counted as missing.
FillDefaultAbsentOnly(plan, key, default_value) ==
    IF ~HasKey(plan, key)
    THEN SetItem(plan, key, default_value)
    ELSE plan

\* Ceo.py:410-411 for one key
FillDefault(plan, key, default_value) ==
    IF ~HasKey(plan, key) \/ ~Truthy(plan.v[key])
    THEN SetItem(plan, key, default_value)
    ELSE plan

RECURSIVE FillDefaultsFrom(_, _, _)
FillDefaultsFrom(plan, requirements, i) ==
    IF i > Len(DefaultKeys) THEN plan
    ELSE FillDefaultsFrom(
             FillDefault(plan, DefaultKeys[i], Defaults(requirements, DefaultKeys[i])),
             requirements, i + 1)

\* Ceo.py:398-411; str.split on a truthy channels value that is no str raises
FillDefaults(plan, requirements) ==
    IF Truthy(Get(requirements, "channels")) /\ ~IsStr(Get(requirements, "channels"))
    THEN Raise("AttributeError", plan)
    ELSE Ok(FillDefaultsFrom(plan, requirements, 1))

Phase(name, days, deliverables, owner, dependencies) ==
    JDict([name         |-> S(name),
           duration_days |-> JInt(days),
           deliverables |-> JList(deliverables),
           owner        |-> S(owner),
           dependencies |-> JList(dependencies),
           milestone    |-> JBool(TRUE)])

\* Ceo.py:414-439
FallbackPhases ==
    JList(<<Phase("Research & Planning", 3, <<S("Strategy document")>>, "R&D", <<>>),
            Phase("Content Creation", 5, <<S("Creative assets")>>, "Marketing",
                  <<S("Research & Planning")>>),
            Phase("Campaign Execution", 6,
                  <<S("Live campaign"), S("Performance report")>>, "Marketing",
                  <<S("Content Creation")>>)>>)

MinPhases == 3

\* As NeedsFallbackPhases, a list of two phases accepted.
NeedsFallbackPhasesBelowTwo(phases) == ~IsList(phases) \/ Len(phases.v) < MinPhases - 1

\* As NeedsFallbackPhases, a list of exactly three phases replaced.
NeedsFallbackPhasesUpToThree(phases) == ~IsList(phases) \/ Len(phases.v) <= MinPhases

\* Ceo.py:413
NeedsFallbackPhases(phases) == ~IsList(phases) \/ Len(phases.v) < MinPhases

\* Ceo.py:413-439
FixPhases(plan) ==
    IF NeedsFallbackPhases(Get(plan, "phases"))
    THEN Ok(SetItem(plan, "phases", FallbackPhases))
    ELSE Ok(plan)

\* As FillComponent, the component overwritten (ba[c] = ...).
FillComponentOverwrite(ba, c, budget) == SetItem(ba, c, JFloat(DMul(budget, Share(c))))

\* Ceo.py:442-445  ba.setdefault(component, budget * share)
FillComponent(ba, c, budget) == SetDefault(ba, c, JFloat(DMul(budget, Share(c))))

\* As FixBudgetAllocation, the total stamped as float(int(budget)).
FixBudgetAllocationTruncatedTotal(plan, budget) ==
    LET ba0 == GetOr(plan, "budget_allocation", EmptyDict)
        ba1 == SetDefault(ba0, "rnd_research", JFloat(DMul(budget, RndShare)))
        ba2 == SetDefault(ba1, "content_creation", JFloat(DMul(budget, ContentShare)))
        ba3 == SetDefault(ba2, "ads_paid", JFloat(DMul(budget, AdsShare)))
        ba4 == SetDefault(ba3, "tools_tech", JFloat(DMul(budget, ToolsShare)))
    IN  Ok(SetItem(plan, "budget_allocation",
                   SetItem(ba4, "total", JFloat(DFromInt(DTrunc(budget))))))

\* Ceo.py:441-447
FixBudgetAllocation(plan, budget) ==
    LET ba0 == GetOr(plan, "budget_allocation", EmptyDict)
        ba1 == FillComponent(ba0, Components[1], budget)
        ba2 == FillComponent(ba1, Components[2], budget)
        ba3 == FillComponent(ba2, Components[3], budget)
        ba4 == FillComponent(ba3, Components[4], budget)
    IN  Ok(SetItem(plan, "budget_allocation", SetItem(ba4, "total", JFloat(budget))))

\* As EnsureDict, the object replaced wholesale.
EnsureDictReplace(plan, key) == SetItem(plan, key, EmptyDict)

\* plan[key] = {} unless it is a dict (Ceo.py:449, 458, 468, 476)
EnsureDict(plan, key) ==
    IF ~IsDict(Get(plan, key)) THEN SetItem(plan, key, EmptyDict) ELSE plan

LeadsDivisor == 1000

MinLeads == 10

\* max(10, int(budget / 1000))
LeadsTarget(budget) == Max(MinLeads, DTrunc(DDivInt(budget, LeadsDivisor)))

\* Stands for the currency prefix of the f-string at Ceo.py:456 (a rupee sign,
\* stored mis-encoded in the source file).
RupeeSign == "INR"

\* Ceo.py:449-456; int() of nan or inf raises
FixKpiTargets(plan, budget) ==
    LET p == EnsureDict(plan, "kpi_targets")
    IN  IF budget.k = "nan" THEN Raise("ValueError", p)
        ELSE IF budget.k = "inf" THEN Raise("OverflowError", p)
        ELSE LET k0 == p.v["kpi_targets"]
                 k1 == SetDefault(k0, "leads", JInt(LeadsTarget(budget)))
                 k2 == SetDefault(k1, "conversion_rate", S("3-5%"))
                 k3 == SetDefault(k2, "roi_expected", S("2-3x"))
                 k4 == SetDefault(k3, "cac_target",
                           JStr(<<RupeeSign>> \o
                                IntToText(DTrunc(DDivInt(budget, LeadsTarget(budget))))))
             IN  Ok(SetItem(p, "kpi_targets", k4))

\* As FillFalsy, the value replaced whether it is falsy or not.
FillFalsyAlways(d, key, default_value) == SetItem(d, key, default_value)

\* Ceo.py:462-465  if not ra.get(key): ra[key] = default
FillFalsy(d, key, default_value) ==
    IF ~Truthy(Get(d, key)) THEN SetItem(d, key, default_value) ELSE d

\* Ceo.py:458-466
FixRiskAssessment(plan) ==
    LET p  == EnsureDict(plan, "risk_assessment")
        r0 == p.v["risk_assessment"]
        r1 == FillFalsy(r0, "high",
                  JList(<<S("Timeline constraints"), S("Budget limitations")>>))
        r2 == FillFalsy(r1, "medium",
                  JList(<<S("Audience targeting"), S("Market competition")>>))
        r3 == SetDefault(r2, "mitigation",
                  S("Daily optimization, A/B testing, continuous monitoring"))
    IN  Ok(SetItem(p, "risk_assessment", r3))

\* Ceo.py:468-474
FixRndParams(plan) ==
    LET p  == EnsureDict(plan, "rnd_params")
        r0 == p.v["rnd_params"]
        r1 == SetDefault(r0, "research_topics",
                  JList(<<S("Market analysis"), S("Competitor research")>>))
        r2 == SetDefault(r1, "competitor_analysis", JBool(TRUE))
        r3 == SetDefault(r2, "market_research", JBool(TRUE))
    IN  Ok(SetItem(p, "rnd_params", r3))

\* Ceo.py:476-482
FixMarketingParams(plan, requirements, budget) ==
    LET p  == EnsureDict(plan, "marketing_params")
        m0 == p.v["marketing_params"]
        m1 == SetDefault(m0, "campaign_type", S("Awareness + Lead Generation"))
        m2 == SetDefault(m1, "creative_brief",
                  JStr(<<"Create ">> \o PyStr(Get(requirements, "goals")) \o <<" for ">>
                       \o PyStr(Get(requirements, "product_service"))))
        m3 == SetDefault(m2, "ad_budget", JFloat(DMul(budget, AdsShare)))
    IN  Ok(SetItem(p, "marketing_params", m3))

\* The statements of the repair in the order of the source.
RepairSteps == 10

RepairStep(i, plan, requirements, insights, budget) ==
    CASE i = 1  -> EnsureBudgetAllocation(plan)
      [] i = 2  -> StampTotal(plan, budget)
      [] i = 3  -> StampInsights(plan, insights)
      [] i = 4  -> FillDefaults(plan, requirements)
      [] i = 5  -> FixPhases(plan)
      [] i = 6  -> FixBudgetAllocation(plan, budget)
      [] i = 7  -> FixKpiTargets(plan, budget)
      [] i = 8  -> FixRiskAssessment(plan)
      [] i = 9  -> FixRndParams(plan)
      [] i = 10 -> FixMarketingParams(plan, requirements, budget)

RECURSIVE RunRepair(_, _, _, _, _)
RunRepair(st, i, requirements, insights, budget) ==
    IF st.exc # "none" \/ i > RepairSteps THEN st
    ELSE RunRepair(RepairStep(i, st.plan, requirements, insights, budget),
                   i + 1, requirements, insights, budget)

\* Ceo.py:386-485
validate_and_fix_plan(plan, requirements, insights) ==
    RunRepair(Ok(plan), 1, requirements, insights,
              safe_float(Get(requirements, "budget")))

(***************************************************************************)
(* CEOAgent._extract_conversation_insights (Ceo.py:165)                    *)
(***************************************************************************)
InsightsOf(tone, pain, needs, context, recs) ==
    JDict([customer_tone      |-> S(tone),
           pain_points        |-> JList(<<S(pain)>>),
           unspoken_needs     |-> JList(<<S(needs)>>),
           urgency_level      |-> S("medium"),
           budget_flexibility |-> S("unknown"),
           market_context     |-> S(context),
           recommendations    |-> JList(<<S(recs)>>)])

\* Ceo.py:168-176
NoHistoryInsights ==
    InsightsOf("neutral", "Limited information provided", "Market validation",
               "No conversation history", "Collect more market data")

\* Ceo.py:216-224
FailedInsights ==
    InsightsOf("neutral", "Analysis failed", "Needs assessment",
               "Conversation analyzed", "Proceed with standard approach")

\* A reply of the model: [ok |-> FALSE] when the call or the parse failed,
\* else the parsed JSON value.
CallFailed == [ok |-> FALSE]

Reply(value) == [ok |-> TRUE, v |-> value]

\* As extract_conversation_insights, a failure answered like a call without
\* history.
extract_conversation_insightsNoHistory(msgs, reply) ==
    IF msgs = <<>> \/ ~reply.ok \/ ~IsDict(reply.v) THEN NoHistoryInsights
    ELSE reply.v

\* Ceo.py:165-224; insights.get on a reply that is no object raises inside
\* the try block and ends in the fallback as well
extract_conversation_insights(msgs, reply) ==
    IF msgs = <<>> THEN NoHistoryInsights
    ELSE IF ~reply.ok \/ ~IsDict(reply.v) THEN FailedInsights
    ELSE reply.v

(***************************************************************************)
(* The inputs of the model: requirements, histories and model replies.     *)
(***************************************************************************)
Absent == [k |-> "absent"]

\* d with key removed
DelItem(d, key) == JDict([x \in (DOMAIN d.v) \ {key} |-> d.v[x]])

\* d with key set to val, or removed when val is Absent
With(d, key, val) == IF val = Absent THEN DelItem(d, key) ELSE SetItem(d, key, val)

TenLakh == <<"1", "0", " ", "l", "a", "k", "h">>

BaseRequirements ==
    JDict([product_service |-> S("Ashwagandha supplements"),
           target_audience |-> S("working professionals"),
           budget          |-> JStr(TenLakh),
           timeline        |-> S("2 weeks"),
           channels        |-> JStr(<<"i", "n", "s", "t", "a", ",", " ", "e", "m", "a", "i", "l">>),
           goals           |-> S("leads")])

BudgetValues ==
    { Absent, None, JInt(0), JInt(7), JInt(250000),
      JStr(<<"2", " ", "c", "r">>),
      JStr(<<"2", " ", "c", "r", "o", "r", "e">>),
      JStr(<<"5", "0", "0", "0", "0">>),
      JStr(<<"g", "a", "r", "b", "a", "g", "e">>),
      JStr(<<"5", "4", "8", "7", "9", ".", "8", "8">>),
      JStr(<<"1", ".", "5", " ", "L", "a", "k", "h">>),
      JStr(<<"n", "a", "n">>) }

RequirementsSet ==
    {BaseRequirements, EmptyDict}
    \cup {With(BaseRequirements, "budget", b) : b \in BudgetValues}
    \cup {With(BaseRequirements, "channels", c) :
             c \in {Absent, JList(<<S("LinkedIn")>>)}}
    \cup {With(BaseRequirements, "product_service", c) : c \in {Absent, None}}

Message(role, content) == [role |-> role, content |-> content]

Histories == {<<>>, <<Message("user", "I want to sell supplements")>>}

\* Replies of the insights call: an object, an empty object, a non-object.
InsightReplies ==
    { Reply(InsightsOf("enthusiastic", "low reach", "brand trust",
                       "growing wellness market", "start with reels")),
      Reply(EmptyDict),
      Reply(JList(<<>>)) }

ModelPhase(n, days) ==
    Phase(<<"Audit the market", "Build the content", "Launch the campaign",
            "Optimise the ads", "Report the results", "Extend the reach">>[n],
          days, <<S("output 1"), S("output 2")>>, "Marketing", <<>>)

ModelPhases(n) == JList([i \in 1..n |-> ModelPhase(i, i + 2)])

\* A reply of the plan call that follows the schema of the prompt
\* (Ceo.py:269-333) for a budget of 100000.
BasePlan ==
    JDict([project_name       |-> S("Ashwagandha Launch"),
           strategy_summary   |-> S("Reach professionals on two channels."),
           executive_summary  |-> S("A fourteen day launch campaign."),
           phases             |-> JList(<<ModelPhase(1, 3), ModelPhase(2, 5),
                                          ModelPhase(3, 6)>>),
           budget_allocation  |-> JDict([rnd_research     |-> JInt(15000),
                                         content_creation |-> JInt(25000),
                                         ads_paid         |-> JInt(50000),
                                         tools_tech       |-> JInt(10000),
                                         total            |-> JInt(100000)]),
           kpi_targets        |-> JDict([leads           |-> JInt(100),
                                         conversion_rate |-> S("4%"),
                                         roi_expected    |-> S("3x"),
                                         cac_target      |-> S("1000")]),
           channels_priority  |-> JList(<<S("Instagram"), S("Email")>>),
           timeline_days      |-> JInt(14),
           risk_assessment    |-> JDict([high       |-> JList(<<S("Budget"), S("Time")>>),
                                         medium     |-> JList(<<S("Reach"), S("Fit")>>),
                                         mitigation |-> S("Optimise daily")]),
           should_trigger_rnd |-> JBool(TRUE),
           rnd_params         |-> JDict([research_topics     |-> JList(<<S("Audience"), S("Rivals")>>),
                                         competitor_analysis |-> JBool(TRUE),
                                         market_research     |-> JBool(FALSE)]),
           should_trigger_marketing |-> JBool(TRUE),
           marketing_params   |-> JDict([campaign_type  |-> S("Awareness"),
                                         creative_brief |-> S("Short reels"),
                                         ad_budget      |-> JInt(50000)]),
           conversation_insights |-> JDict([customer_tone |-> S("hesitant")]),
           success_probability |-> S("High")])

\* What the model may return for one key instead of the value of BasePlan.
Variants(key) ==
    CASE key = "project_name"      -> {Absent, JStr(<<>>)}
      [] key = "strategy_summary"  -> {Absent, None}
      [] key = "executive_summary" -> {Absent, JStr(<<>>)}
      [] key = "phases" ->
           {Absent, None, JList(<<>>), S("three phases"),
            ModelPhases(2), ModelPhases(4), ModelPhases(6)}
      [] key = "budget_allocation" ->
           {Absent, None, JList(<<>>), S("half on ads"), EmptyDict,
            JDict([rnd_research |-> JInt(20000)]),
            JDict([rnd_research |-> JInt(1), content_creation |-> JInt(2),
                   ads_paid |-> JInt(3), tools_tech |-> JInt(4)])}
      [] key = "kpi_targets" ->
           {Absent, None, JList(<<>>), EmptyDict,
            JDict([leads |-> JInt(5)]), JDict([leads |-> None])}
      [] key = "channels_priority" -> {Absent, None, JList(<<>>)}
      [] key = "timeline_days"     -> {Absent, None, JInt(0), JInt(20)}
      [] key = "risk_assessment" ->
           {Absent, S("low"), EmptyDict,
            JDict([high |-> JList(<<>>), medium |-> JList(<<S("Reach"), S("Fit")>>),
                   mitigation |-> S("Optimise daily")]),
            JDict([high |-> JList(<<S("Budget")>>)]),
            JDict([mitigation |-> JStr(<<>>)])}
      [] key = "should_trigger_rnd" -> {Absent, JBool(FALSE)}
      [] key = "rnd_params" ->
           {Absent, None, EmptyDict, JDict([competitor_analysis |-> JBool(FALSE)])}
      [] key = "should_trigger_marketing" -> {Absent, JBool(FALSE)}
      [] key = "marketing_params" ->
           {Absent, JList(<<>>), EmptyDict, JDict([ad_budget |-> JInt(1)])}
      [] key = "conversation_insights" -> {Absent, None, EmptyDict}
      [] key = "success_probability" -> {Absent, JStr(<<>>)}

\* Ceo.py:116-132
SchemaKeys ==
    {"project_name", "strategy_summary", "executive_summary", "phases",
     "budget_allocation", "kpi_targets", "channels_priority", "timeline_days",
     "risk_assessment", "should_trigger_rnd", "rnd_params",
     "should_trigger_marketing", "marketing_params", "conversation_insights",
     "success_probability"}

\* The number of keys in which a reply may depart from BasePlan.
MaxDefects == 1

RECURSIVE PlansWithin(_)
PlansWithin(n) ==
    IF n = 0 THEN {BasePlan}
    ELSE LET prev == PlansWithin(n - 1)
         IN  prev \cup {With(p, key, v) : p \in prev,
                            <<key, v>> \in {<<x, y>> \in SchemaKeys \X
                                                (UNION {Variants(x) : x \in SchemaKeys}) :
                                               y \in Variants(x)}}

\* Replies of the plan call: objects near BasePlan, and values that are no object.
PlanReplies ==
    PlansWithin(MaxDefects) \cup {None, JList(<<>>), S("Here is your plan")}

(***************************************************************************)
(* The HTTP layer (main.py): identifiers, routes and responses.            *)
(* An identifier and a path segment are texts: sequences of pieces.        *)
(***************************************************************************)
\* A response that was not sent yet.
Pending == [status |-> 0]

\* main.py:99-167 raise HTTPException(status_code, detail)
HTTPException(status_code, detail) == [status |-> status_code, detail |-> detail]

\* A returned value: FastAPI answers 200 with it as the body.
Returned(body) == [status |-> 200, body |-> body]

\* Ceo.py:36
MODEL == "llama-3.3-70b-versatile"

\* main.py:108  f"proj_{int(datetime.now().timestamp())}"
ProjId(t) == <<"proj_">> \o IntToText(t)

\* main.py:195, 243  f"rnd_{...}", f"mkt_{...}"
JobId(agent, t) == <<IF agent = "rnd" THEN "rnd_" ELSE "mkt_">> \o IntToText(t)

Lit(text) == [lit |-> TRUE, text |-> <<text>>]

Param(name) == [lit |-> FALSE, text |-> <<name>>]

\* The routes under /api/v1 in the order of their registration (main.py:57-282).
Routes ==
    << [method |-> "POST", path |-> <<Lit("customer"), Lit("message")>>,
        handler |-> "post_customer_message"],
       [method |-> "GET",  path |-> <<Lit("customer"), Param("conversation_id")>>,
        handler |-> "get_customer_conversation"],
       [method |-> "GET",  path |-> <<Lit("customer"), Lit("ready"), Param("conversation_id")>>,
        handler |-> "customer_ready_for_ceo"],
       [method |-> "POST", path |-> <<Lit("customer"), Lit("export"), Param("conversation_id")>>,
        handler |-> "export_customer_for_ceo"],
       [method |-> "POST", path |-> <<Lit("ceo"), Lit("analyze")>>,
        handler |-> "ceo_analyze"],
       [method |-> "GET",  path |-> <<Lit("ceo"), Param("project_id")>>,
        handler |-> "get_ceo_plan"],
       [method |-> "GET",  path |-> <<Lit("ceo"), Lit("status")>>,
        handler |-> "ceo_status"],
       [method |-> "POST", path |-> <<Lit("rnd"), Lit("trigger")>>,
        handler |-> "trigger_rnd_agent"],
       [method |-> "POST", path |-> <<Lit("marketing"), Lit("trigger")>>,
        handler |-> "trigger_marketing_agent"],
       [method |-> "GET",  path |-> <<Lit("jobs"), Param("job_id")>>,
        handler |-> "get_job_status"] >>

\* A route matches a path of as many segments whose literal segments agree;
\* a parameter takes any segment.
Matches(route, method, path) ==
    /\ route.method = method
    /\ Len(route.path) = Len(path)
    /\ \A i \in 1..Len(path) : route.path[i].lit => route.path[i].text = path[i]

\* The router answers with the first route that matches.
Route(method, path) ==
    LET hits == {i \in 1..Len(Routes) : Matches(Routes[i], method, path)}
    IN  IF hits = {} THEN "not_found"
        ELSE Routes[CHOOSE i \in hits : \A j \in hits : i <= j].handler

(***************************************************************************)
(* CEOAgent.analyze_requirements (Ceo.py:226) as a state machine.          *)
(***************************************************************************)
VARIABLES
    requirements,   \* the requirements of the call
    messages,       \* the conversation history of the call
    insights,       \* Ceo.py:236
    plan,           \* the parsed reply of the plan call, Ceo.py:357-372
    result,         \* [exc, plan]: what _validate_and_fix_plan raised or returned
    pc,             \* "idle", "start", "prompt", "parsed", "done", "failed", "raised"
    projects,       \* data/projects: project id -> the record of its JSON file
    jobs,           \* data/jobs: job id -> the record of its JSON file
    now,            \* datetime.now() in whole seconds
    request,        \* the HTTP request being served, or served last
    response,       \* the response to it, Pending while it is being served
    replaced,       \* history: the record that the last open(project_path, "w") truncated
    served,         \* the number of requests received
    conversations,  \* customer.py:76 store.conversations: id -> [messages, created_at]
    session         \* app.py:50-70 st.session_state of the one browser session

call == <<requirements, messages, insights, plan, result, pc>>

intake == <<conversations, session>>

srv == <<projects, jobs, now, request, response, replaced, served, intake>>

vars == <<requirements, messages, insights, plan, result, pc,
          projects, jobs, now, request, response, replaced, served,
          conversations, session>>

\* app.py:50-70 init_session_state: the keys that send_message reads and writes
SessionStart ==
    [conversation_id |-> <<>>,      \* None
     messages        |-> <<>>,
     requirements    |-> JDict([product_service |-> None,
                                target_audience |-> None,
                                budget          |-> None,
                                timeline        |-> None,
                                channels        |-> None,
                                goals           |-> None])]

\* No file in data/projects and data/jobs, no conversation stored, no request
\* received, the browser session fresh.
ServerStart ==
    /\ projects = <<>>
    /\ jobs = <<>>
    /\ now = 0
    /\ response = Pending
    /\ replaced = Absent
    /\ served = 0
    /\ conversations = <<>>
    /\ session = SessionStart

\* One call of analyze_requirements(requirements, messages).
Init ==
    /\ requirements \in RequirementsSet
    /\ messages \in Histories
    /\ insights = EmptyDict
    /\ plan = None
    /\ result = Ok(None)
    /\ pc = "start"
    /\ request = [op |-> "analyze_requirements"]
    /\ ServerStart

\* Ceo.py:236-237 with no history: insights stays {}
SkipInsights ==
    /\ pc = "start"
    /\ messages = <<>>
    /\ pc' = "prompt"
    /\ UNCHANGED <<requirements, messages, insights, plan, result, srv>>

\* Ceo.py:238, the insights call answers
ExtractInsights ==
    /\ pc = "start"
    /\ messages # <<>>
    /\ \E reply \in InsightReplies :
          insights' = extract_conversation_insights(messages, reply)
    /\ pc' = "prompt"
    /\ UNCHANGED <<requirements, messages, plan, result, srv>>

\* Ceo.py:238, the insights call fails
ExtractInsightsFails ==
    /\ pc = "start"
    /\ messages # <<>>
    /\ insights' = extract_conversation_insights(messages, CallFailed)
    /\ pc' = "prompt"
    /\ UNCHANGED <<requirements, messages, plan, result, srv>>

\* Ceo.py:232
Budget == safe_float(Get(requirements, "budget"))

\* Ceo.py:345-350: int() of a budget that is nan or inf raises
SplitsRaise == Budget.k # "fin"

PromptFails ==
    /\ pc = "prompt"
    /\ SplitsRaise
    /\ result' = Raise(IF Budget.k = "nan" THEN "ValueError" ELSE "OverflowError", None)
    /\ pc' = "failed"
    /\ UNCHANGED <<requirements, messages, insights, plan, srv>>

\* Ceo.py:357-372, the plan call answers with a JSON value
ChainInvoke ==
    /\ pc = "prompt"
    /\ ~SplitsRaise
    /\ plan' \in PlanReplies
    /\ pc' = "parsed"
    /\ UNCHANGED <<requirements, messages, insights, result, srv>>

\* Ceo.py:357, 380-384, the plan call fails and the error is raised again
ChainInvokeFails ==
    /\ pc = "prompt"
    /\ ~SplitsRaise
    /\ result' = Raise("LLMError", None)
    /\ pc' = "failed"
    /\ UNCHANGED <<requirements, messages, insights, plan, srv>>

\* Ceo.py:375
ValidateAndFix ==
    /\ pc = "parsed"
    /\ result' = validate_and_fix_plan(plan, requirements, insights)
    /\ pc' = IF result'.exc = "none" THEN "done" ELSE "raised"
    /\ UNCHANGED <<requirements, messages, insights, plan, srv>>

Next ==
    \/ SkipInsights
    \/ ExtractInsights
    \/ ExtractInsightsFails
    \/ PromptFails
    \/ ChainInvoke
    \/ ChainInvokeFails
    \/ ValidateAndFix

Spec == Init /\ [][Next]_vars

(***************************************************************************)
(* The server of main.py.  Every handler is an async function that never   *)
(* awaits, so requests are served one at a time; ceo_analyze spends the    *)
(* steps of analyze_requirements, the other handlers are one step.         *)
(***************************************************************************)
\* The number of requests the server receives.
MaxRequests == 3

\* The last second of the clock.
MaxTime == 1

\* Identifiers a client names by itself; it also names those it was given.
ClientIds == {<<"X">>, <<"status">>}

\* conversation_id of a CEORequest: absent (the empty text) or a client id
ConversationIds == {<<>>} \cup ClientIds

\* The requirements clients send: the base ones, and a budget that is no number.
ApiRequirements ==
    {BaseRequirements, With(BaseRequirements, "budget", JStr(<<"n", "a", "n">>))}

\* Replies of the plan call to the server: a sound plan, one that declines
\* research and marketing, and a reply that is no object.
ApiPlanReplies ==
    {BasePlan,
     With(With(BasePlan, "should_trigger_rnd", JBool(FALSE)),
          "should_trigger_marketing", JBool(FALSE)),
     JList(<<>>)}

TriggerParams == {JDict([depth |-> S("full")])}

\* main.py:115-124
ProjectData(project_id, reqs, ceo_plan, t) ==
    [project_id       |-> project_id,
     conversation_id  |-> project_id,
     requirements     |-> reqs,
     ceo_plan         |-> ceo_plan,
     status           |-> "planning_complete",
     created_at       |-> t,
     agents_triggered |-> <<>>,
     model            |-> MODEL]

\* main.py:131-139
AnalyzeBody(project_id, ceo_plan) ==
    [status              |-> "success",
     project_id          |-> project_id,
     conversation_id     |-> project_id,
     plan                |-> ceo_plan,
     rnd_trigger         |-> GetOr(ceo_plan, "should_trigger_rnd", JBool(FALSE)),
     marketing_trigger   |-> GetOr(ceo_plan, "should_trigger_marketing", JBool(FALSE)),
     success_probability |-> GetOr(ceo_plan, "success_probability", S("Medium"))]

\* The locals of analyze_requirements once the handler has returned.
CallOver ==
    /\ requirements' = EmptyDict
    /\ messages' = <<>>
    /\ insights' = EmptyDict
    /\ plan' = None
    /\ result' = Ok(None)
    /\ pc' = "idle"

\* No request was received yet.
ApiInit ==
    /\ requirements = EmptyDict
    /\ messages = <<>>
    /\ insights = EmptyDict
    /\ plan = None
    /\ result = Ok(None)
    /\ pc = "idle"
    /\ request = [op |-> "none"]
    /\ ServerStart

\* main.py:100-111: CEORequest keeps conversation_id and requirements of the
\* body and drops every other key; analyze_requirements is called with the
\* requirements alone, so its messages parameter is None.
CeoAnalyzeBegin ==
    /\ pc = "idle"
    /\ served < MaxRequests
    /\ \E cid \in ConversationIds, reqs \in ApiRequirements, msgs \in Histories :
          /\ request' = [op |-> "ceo_analyze",
                         conversation_id |-> IF cid # <<>> THEN cid ELSE ProjId(now),
                         requirements |-> reqs,
                         messages |-> msgs]
          /\ requirements' = reqs
    /\ messages' = <<>>
    /\ insights' = EmptyDict
    /\ plan' = None
    /\ result' = Ok(None)
    /\ pc' = "start"
    /\ response' = Pending
    /\ served' = served + 1
    /\ UNCHANGED <<projects, jobs, now, replaced, intake>>

\* Ceo.py:357-372, the plan call answers the server
ApiChainInvoke ==
    /\ pc = "prompt"
    /\ ~SplitsRaise
    /\ plan' \in ApiPlanReplies
    /\ pc' = "parsed"
    /\ UNCHANGED <<requirements, messages, insights, result, srv>>

\* As WriteProject, the notes of the record that was there carried over.
WriteProjectKeepingNotes(files, id, record) ==
    IF id \in DOMAIN files
    THEN (id :> [record EXCEPT !.agents_triggered = files[id].agents_triggered]) @@ files
    ELSE (id :> record) @@ files

\* main.py:126-127  open(project_path, "w") and json.dump: the file is the record
WriteProject(files, id, record) == (id :> record) @@ files

\* main.py:113-139: the plan came back; the record is written over the file
\* of the project and the plan returned.
CeoAnalyzeSave ==
    /\ pc = "done"
    /\ request.op = "ceo_analyze"
    /\ LET id == request.conversation_id
       IN  IF ~Truthy(result.plan)
           THEN /\ response' = HTTPException(500, "Exception")
                /\ UNCHANGED <<projects, replaced>>
           ELSE /\ projects' = WriteProject(projects, id,
                                  ProjectData(id, request.requirements, result.plan, now))
                /\ replaced' = IF id \in DOMAIN projects THEN projects[id] ELSE Absent
                /\ response' = Returned(AnalyzeBody(id, result.plan))
    /\ CallOver
    /\ UNCHANGED <<jobs, now, request, served, intake>>

\* As AnalyzeFailed, a failure answered with a plan-shaped fallback.
AnalyzeFailedWithFallback(exc) ==
    Returned([status |-> "success", plan |-> JDict([phases |-> FallbackPhases])])

\* main.py:152-154
AnalyzeFailed(exc) == HTTPException(500, exc)

\* main.py:152-154: analyze_requirements raised
CeoAnalyzeError ==
    /\ pc \in {"failed", "raised"}
    /\ request.op = "ceo_analyze"
    /\ response' = AnalyzeFailed(result.exc)
    /\ CallOver
    /\ UNCHANGED <<projects, jobs, now, request, replaced, served, intake>>

\* As get_ceo_plan, without the clause for FileNotFoundError.
get_ceo_planCatchAll(project_id) ==
    IF project_id \in DOMAIN projects THEN Returned(projects[project_id])
    ELSE HTTPException(500, "FileNotFoundError")

\* main.py:156-167
get_ceo_plan(project_id) ==
    IF project_id \in DOMAIN projects THEN Returned(projects[project_id])
    ELSE HTTPException(404, "Project not found")

\* main.py:169-181: CEOAgent has no attribute last_error (Ceo.py:161-163), so
\* building the report raises AttributeError inside the try block.
ceo_status == HTTPException(500, "AttributeError")

\* main.py:282-290
get_job_status(job_id) ==
    IF job_id \in DOMAIN jobs THEN Returned(jobs[job_id])
    ELSE HTTPException(404, "Job not found")

(***************************************************************************)
(* The customer intake of customer.py and the chat of the frontend.        *)
(* Texts are sequences of characters.                                      *)
(***************************************************************************)
\* customer.py:80-81 present(words)
present(t, words) ==
    IF \E w \in words : Contains(t, w) THEN S("mentioned") ELSE None

\* customer.py:84-89, the keyword lists
ProductWords ==
    { <<"p","r","o","d","u","c","t">>, <<"s","e","r","v","i","c","e">>,
      <<"s","e","l","l">>, <<"l","a","u","n","c","h">>,
      <<"a","s","h","w","a","g","a","n","d","h","a">>,
      <<"s","u","p","p","l","e","m","e","n","t">> }

AudienceWords ==
    { <<"t","a","r","g","e","t">>, <<"a","u","d","i","e","n","c","e">>,
      <<"c","u","s","t","o","m","e","r">>,
      <<"p","r","o","f","e","s","s","i","o","n","a","l">>, <<"a","g","e">>,
      <<"s","t","u","d","e","n","t","s">>, <<"p","a","r","e","n","t","s">> }

BudgetWords ==
    { <<"b","u","d","g","e","t">>, <<RupeeSign>>, <<"l","a","k","h">>,
      <<"c","r","o","r","e">>, <<"r","s">>, <<"r","u","p","e","e">>,
      <<"p","r","i","c","e">>, <<"s","p","e","n","d">> }

TimelineWords ==
    { <<"w","e","e","k">>, <<"m","o","n","t","h">>,
      <<"t","i","m","e","l","i","n","e">>, <<"w","h","e","n">>,
      <<"l","a","u","n","c","h">>, <<"s","t","a","r","t">>,
      <<"d","u","r","a","t","i","o","n">> }

ChannelWords ==
    { <<"i","n","s","t","a","g","r","a","m">>, <<"i","n","s","t","a">>,
      <<"l","i","n","k","e","d","i","n">>, <<"e","m","a","i","l">>,
      <<"y","o","u","t","u","b","e">>, <<"f","a","c","e","b","o","o","k">>,
      <<"s","o","c","i","a","l">> }

GoalWords ==
    { <<"l","e","a","d">>, <<"l","e","a","d","s">>, <<"s","a","l","e">>,
      <<"s","a","l","e","s">>, <<"a","w","a","r","e","n","e","s","s">>,
      <<"s","i","g","n","u","p">>, <<"c","o","n","v","e","r","s","i","o","n">> }

\* As extract_requirements_from_text, the text searched as it was typed.
extract_requirements_from_textCaseSensitive(text) ==
    JDict([product_service |-> present(text, ProductWords),
           target_audience |-> present(text, AudienceWords),
           budget          |-> present(text, BudgetWords),
           timeline        |-> present(text, TimelineWords),
           channels        |-> present(text, ChannelWords),
           goals           |-> present(text, GoalWords)])

\* customer.py:78-90
extract_requirements_from_text(text) ==
    LET t == Lower(text)
    IN  JDict([product_service |-> present(t, ProductWords),
               target_audience |-> present(t, AudienceWords),
               budget          |-> present(t, BudgetWords),
               timeline        |-> present(t, TimelineWords),
               channels        |-> present(t, ChannelWords),
               goals           |-> present(t, GoalWords)])

\* customer.py:93  sum(1 for v in reqs.values() if v)
Collected(reqs) == Cardinality({f \in DOMAIN reqs.v : Truthy(reqs.v[f])})

FieldCount == 6

\* customer.py:92-94  collected / 6.0
compute_completeness(reqs) == DDivInt(DFromInt(Collected(reqs)), FieldCount)

\* a >= b for two finite doubles that are zero or positive
DGe(a, b) ==
    LET x == a
        y == b
    IN  IF y = DZero THEN TRUE
        ELSE IF x = DZero THEN FALSE
        ELSE IF x.e # y.e THEN x.e > y.e
        ELSE \/ x.m = y.m
             \/ LET differ == {i \in 1..Len(x.m) : x.m[i] # y.m[i]}
                    top    == CHOOSE i \in differ : \A j \in differ : j <= i
                IN  x.m[top] > y.m[top]

\* The float literal 0.8 of customer.py:160 and 190.
ReadyThreshold == DDivInt(DFromInt(8), 10)

\* " ".join(m["text"] for m in conv["messages"])
RECURSIVE JoinTexts(_)
JoinTexts(msgs) ==
    IF msgs = <<>> THEN <<>>
    ELSE IF Len(msgs) = 1 THEN msgs[1].text
    ELSE msgs[1].text \o <<" ">> \o JoinTexts(Tail(msgs))

\* customer.py:58-62  ConversationStore.create
create(convs, conv_id, t) ==
    (conv_id :> [messages |-> <<>>, created_at |-> t]) @@ convs

\* customer.py:64-71  ConversationStore.add_message
add_message(convs, conv_id, role, text, t) ==
    LET had == IF conv_id \in DOMAIN convs THEN convs ELSE create(convs, conv_id, t)
    IN  [had EXCEPT ![conv_id].messages =
            Append(@, [role |-> role, text |-> text, timestamp |-> t])]

\* str(uuid.uuid4()): an identifier that no conversation has; the store never
\* forgets a conversation, so their number tells the identifiers apart.
Uuid(convs) == <<"uuid_">> \o IntToText(Cardinality(DOMAIN convs) + 1)

\* customer.py:129  conversation_id or str(uuid.uuid4()); None and the empty
\* text are the empty identifier.
ConvIdOf(convs, conversation_id) ==
    IF conversation_id # <<>> THEN conversation_id ELSE Uuid(convs)

\* As CustomerAppended, the conversation created anew at every message.
CustomerAppendedAfresh(convs, conv_id, text, t) ==
    add_message(create(convs, conv_id, t), conv_id, "customer", text, t)

\* customer.py:130-133: the conversation is created if the store has none,
\* and the customer message appended, before the model is called.
CustomerAppended(convs, conv_id, text, t) ==
    add_message(IF conv_id \in DOMAIN convs THEN convs ELSE create(convs, conv_id, t),
                conv_id, "customer", text, t)

\* As StoreAfter, a failed call leaving the store as it was before the call.
StoreAfterRolledBack(convs, conv_id, text, reply, t) ==
    IF reply.ok
    THEN add_message(CustomerAppended(convs, conv_id, text, t),
                     conv_id, "assistant", reply.v, t)
    ELSE convs

\* customer.py:128-149, 101-105: the store when process_customer_message
\* returns or raises; llm.invoke raises before intake_agent appends the reply.
StoreAfter(convs, conv_id, text, reply, t) ==
    IF reply.ok
    THEN add_message(CustomerAppended(convs, conv_id, text, t),
                     conv_id, "assistant", reply.v, t)
    ELSE CustomerAppended(convs, conv_id, text, t)

\* customer.py:107-110, 151-161: what process_customer_message returns, from
\* the store as intake_agent left it.
MessageBody(convs, conv_id, reply) ==
    LET reqs == extract_requirements_from_text(JoinTexts(convs[conv_id].messages))
    IN  [conversation_id |-> conv_id,
         reply           |-> reply.v,
         requirements    |-> reqs,
         completeness    |-> compute_completeness(reqs),
         ready_for_ceo   |-> DGe(compute_completeness(reqs), ReadyThreshold)]

\* main.py:57-64
post_customer_message(convs, conv_id, reply) ==
    IF reply.ok THEN Returned(MessageBody(convs, conv_id, reply))
    ELSE HTTPException(500, "Customer agent error")

\* customer.py:163-178 and main.py:66-74
get_customer_conversation(conversation_id) ==
    IF conversation_id \notin DOMAIN conversations
    THEN HTTPException(404, "Conversation not found")
    ELSE LET conv == conversations[conversation_id]
             reqs == extract_requirements_from_text(JoinTexts(conv.messages))
         IN  Returned([conversation_id |-> conversation_id,
                       messages        |-> conv.messages,
                       requirements    |-> reqs,
                       completeness    |-> compute_completeness(reqs),
                       created_at      |-> conv.created_at])

\* main.py:76-84: customer.py defines no is_ready_for_ceo, so the call raises
\* AttributeError, which the clause for Exception answers.
customer_ready_for_ceo(conversation_id) == HTTPException(500, "AttributeError")

\* customer.py:180-195 and main.py:86-95
export_customer_for_ceo(conversation_id) ==
    IF conversation_id \notin DOMAIN conversations
    THEN HTTPException(404, "Conversation not found")
    ELSE LET conv == conversations[conversation_id]
             reqs == extract_requirements_from_text(JoinTexts(conv.messages))
         IN  Returned([conversation_id |-> conversation_id,
                       requirements |->
                           [conversation_id |-> conversation_id,
                            status     |-> IF DGe(compute_completeness(reqs), ReadyThreshold)
                                           THEN "ready_for_ceo" ELSE "incomplete",
                            brief      |-> reqs,
                            messages   |-> conv.messages,
                            created_at |-> conv.created_at]])

\* The GET paths clients ask for under /api/v1.
GetPaths ==
    {<<<<"ceo">>, id>> : id \in ClientIds \cup DOMAIN projects}
    \cup {<<<<"jobs">>, id>> : id \in {JobId("rnd", 0)} \cup DOMAIN jobs}

\* The answer of the handler that the router picks for GET path.
Dispatch(path) ==
    LET handler == Route("GET", path)
    IN  CASE handler = "get_ceo_plan"   -> get_ceo_plan(path[2])
          [] handler = "ceo_status"     -> ceo_status
          [] handler = "get_job_status" -> get_job_status(path[2])
          [] handler = "get_customer_conversation" -> get_customer_conversation(path[2])
          [] handler = "customer_ready_for_ceo" -> customer_ready_for_ceo(path[3])
          [] OTHER                      -> HTTPException(404, "Not Found")

HttpGet ==
    /\ pc = "idle"
    /\ served < MaxRequests
    /\ \E path \in GetPaths :
          /\ request' = [op |-> Route("GET", path), path |-> path]
          /\ response' = Dispatch(path)
    /\ served' = served + 1
    /\ UNCHANGED <<call, projects, jobs, now, replaced, intake>>

\* As JobData, the job marked as started.
JobDataStarted(job_id, project_id, agent, params, t) ==
    [job_id     |-> job_id,
     project_id |-> project_id,
     agent      |-> agent,
     params     |-> params,
     status     |-> "running",
     created_at |-> t]

\* main.py:196-203, 244-251
JobData(job_id, project_id, agent, params, t) ==
    [job_id     |-> job_id,
     project_id |-> project_id,
     agent      |-> agent,
     params     |-> params,
     status     |-> "queued",
     created_at |-> t]

\* main.py:210-222, 258-270: the note is appended to the record of the
\* project if the project has a file
WithNote(files, project_id, agent, job_id, t) ==
    IF project_id \in DOMAIN files
    THEN [files EXCEPT ![project_id].agents_triggered =
             Append(@, [agent     |-> agent,
                        job_id    |-> job_id,
                        status    |-> "queued",
                        timestamp |-> t])]
    ELSE files

\* main.py:225-231, 273-279
TriggerBody(job_id, agent) ==
    [status       |-> "success",
     job_id       |-> job_id,
     agent        |-> agent,
     queue_status |-> "queued",
     next_check   |-> <<<<"jobs">>, job_id>>]

\* main.py:186-232
TriggerRnd ==
    /\ pc = "idle"
    /\ served < MaxRequests
    /\ \E project_id \in ClientIds \cup DOMAIN projects, params \in TriggerParams :
          LET job_id == JobId("rnd", now)
          IN  /\ request' = [op |-> "trigger_rnd_agent",
                             project_id |-> project_id, params |-> params]
              /\ jobs' = (job_id :> JobData(job_id, project_id, "rnd", params, now)) @@ jobs
              /\ projects' = WithNote(projects, project_id, "rnd", job_id, now)
              /\ response' = Returned(TriggerBody(job_id, "rnd"))
    /\ served' = served + 1
    /\ UNCHANGED <<call, now, replaced, intake>>

\* main.py:234-280
TriggerMarketing ==
    /\ pc = "idle"
    /\ served < MaxRequests
    /\ \E project_id \in ClientIds \cup DOMAIN projects, params \in TriggerParams :
          LET job_id == JobId("marketing", now)
          IN  /\ request' = [op |-> "trigger_marketing_agent",
                             project_id |-> project_id, params |-> params]
              /\ jobs' = (job_id :> JobData(job_id, project_id, "marketing", params, now))
                            @@ jobs
              /\ projects' = WithNote(projects, project_id, "marketing", job_id, now)
              /\ response' = Returned(TriggerBody(job_id, "marketing"))
    /\ served' = served + 1
    /\ UNCHANGED <<call, now, replaced, intake>>

\* A second passes.
Tick ==
    /\ now < MaxTime
    /\ now' = now + 1
    /\ UNCHANGED <<call, projects, jobs, request, response, replaced, served, intake>>

ApiNext ==
    \/ CeoAnalyzeBegin
    \/ SkipInsights
    \/ PromptFails
    \/ ApiChainInvoke
    \/ ChainInvokeFails
    \/ ValidateAndFix
    \/ CeoAnalyzeSave
    \/ CeoAnalyzeError
    \/ HttpGet
    \/ TriggerRnd
    \/ TriggerMarketing
    \/ Tick

ApiSpec == ApiInit /\ [][ApiNext]_vars

(***************************************************************************)
(* The customer endpoints of main.py and the chat of the frontend.         *)
(***************************************************************************)
\* What customers type: nothing, a word in capitals that is a keyword of two
\* fields, and a word that holds the keywords "customer" and "rs".
CustomerTexts ==
    { <<>>,
      <<"L","A","U","N","C","H">>,
      <<"c","u","s","t","o","m","e","r","s">> }

\* What the intake model answers.
IntakeReplies == { Reply(<<"E","m","a","i","l","?">>) }

\* The identifiers a client of the API names for a conversation.
CustomerIds == {<<"X">>}

\* data.get(key, default) on the JSON object of a response
DataGet(data, key, default) == IF key \in DOMAIN data THEN data[key] ELSE default

RequirementKeys ==
    <<"product_service", "target_audience", "budget", "timeline", "channels", "goals">>

\* app.py:354-359, the loop over the six keys from the i-th on
RECURSIVE CopyCollected(_, _, _)
CopyCollected(reqs, collected, i) ==
    IF i > Len(RequirementKeys) THEN reqs
    ELSE LET key == RequirementKeys[i]
         IN  CopyCollected(
                 IF /\ HasKey(collected, key)
                    /\ Truthy(Get(collected, key))
                    /\ Strip(PyStr(Get(collected, key))) # <<>>
                 THEN SetItem(reqs, key, Get(collected, key))
                 ELSE reqs,
                 collected, i + 1)

\* app.py:331-369 send_message, given the answer of the backend
send_message(state, text, answer) ==
    LET sent == [state EXCEPT !.messages =
                    Append(@, [role |-> "user", content |-> text])]
    IN  IF answer.status # 200
        THEN [sent EXCEPT !.messages =
                 Append(@, [role |-> "assistant", content |-> <<"Connection error">>])]
        ELSE LET data      == answer.body
                 collected == DataGet(data, "requirements_collected", EmptyDict)
             IN  [sent EXCEPT
                    !.conversation_id = DataGet(data, "conversation_id", <<>>),
                    !.messages = Append(@, [role    |-> "assistant",
                                            content |-> DataGet(data, "reply",
                                                                <<"No response">>)]),
                    !.requirements = IF Truthy(collected)
                                     THEN CopyCollected(@, collected, 1)
                                     ELSE @]

\* main.py:57-64: a client of the API posts a message
PostCustomerMessage ==
    /\ pc = "idle"
    /\ served < MaxRequests
    /\ \E conversation_id \in CustomerIds, text \in CustomerTexts,
          reply \in IntakeReplies \cup {CallFailed} :
          LET conv_id == ConvIdOf(conversations, conversation_id)
              convs   == StoreAfter(conversations, conv_id, text, reply, now)
          IN  /\ request' = [op |-> "post_customer_message",
                             conversation_id |-> conversation_id, text |-> text]
              /\ conversations' = convs
              /\ response' = post_customer_message(convs, conv_id, reply)
    /\ served' = served + 1
    /\ UNCHANGED <<call, projects, jobs, now, replaced, session>>

\* app.py:331-369 with main.py:57-64: the chat of the frontend sends a message
SendMessage ==
    /\ pc = "idle"
    /\ served < MaxRequests
    /\ \E text \in CustomerTexts, reply \in IntakeReplies \cup {CallFailed} :
          LET conv_id == ConvIdOf(conversations, session.conversation_id)
              convs   == StoreAfter(conversations, conv_id, text, reply, now)
              answer  == post_customer_message(convs, conv_id, reply)
          IN  /\ request' = [op |-> "send_message",
                             conversation_id |-> session.conversation_id,
                             text |-> text]
              /\ conversations' = convs
              /\ response' = answer
              /\ session' = send_message(session, text, answer)
    /\ served' = served + 1
    /\ UNCHANGED <<call, projects, jobs, now, replaced>>

\* The GET paths a client asks for under /api/v1/customer.
CustomerPaths ==
    {<<<<"customer">>, id>> : id \in CustomerIds \cup DOMAIN conversations}
    \cup {<<<<"customer">>, <<"ready">>, id>> : id \in CustomerIds \cup DOMAIN conversations}

CustomerGet ==
    /\ pc = "idle"
    /\ served < MaxRequests
    /\ \E path \in CustomerPaths :
          /\ request' = [op |-> Route("GET", path), path |-> path]
          /\ response' = Dispatch(path)
    /\ served' = served + 1
    /\ UNCHANGED <<call, projects, jobs, now, replaced, intake>>

\* main.py:86-95
CustomerExport ==
    /\ pc = "idle"
    /\ served < MaxRequests
    /\ \E id \in CustomerIds \cup DOMAIN conversations :
          /\ request' = [op |-> "export_customer_for_ceo", conversation_id |-> id]
          /\ response' = export_customer_for_ceo(id)
    /\ served' = served + 1
    /\ UNCHANGED <<call, projects, jobs, now, replaced, intake>>

IntakeNext ==
    \/ PostCustomerMessage
    \/ SendMessage
    \/ CustomerGet
    \/ CustomerExport

IntakeSpec == ApiInit /\ [][IntakeNext]_vars

(***************************************************************************)
(* Properties of the repair.  In a state with pc = "done" the variable     *)
(* plan holds the reply as the model returned it and result.plan the plan  *)
(* that _validate_and_fix_plan returned for it.                            *)
(***************************************************************************)
Repaired == result.plan

Allocation(p) == p.v["budget_allocation"]

\* the sequence of numbers of the four components, as floats
AsFloat(x) == IF x.k = "int" THEN DFromInt(x.v) ELSE x.v

ComponentSum(ba) ==
    DAdd(DAdd(DAdd(AsFloat(ba.v["rnd_research"]), AsFloat(ba.v["content_creation"])),
              AsFloat(ba.v["ads_paid"])),
         AsFloat(ba.v["tools_tech"]))

RECURSIVE SumDays(_)
SumDays(phases) ==
    IF phases = <<>> THEN 0
    ELSE phases[1].v["duration_days"].v + SumDays(Tail(phases))

\* C1: after the repair, budget_allocation.total is the normalised budget of
\* the requirements, whatever total the model supplied.
C1_TotalIsBudget ==
    pc = "done" =>
        /\ IsDict(Allocation(Repaired))
        /\ HasKey(Allocation(Repaired), "total")
        /\ Allocation(Repaired).v["total"] = JFloat(Budget)

\* C1 witness: the model supplied a total that differs from the fractional
\* budget 54879.88, and the repaired total is that budget.
C1_Witness ==
    /\ pc = "done"
    /\ HasKey(plan, "budget_allocation")
    /\ HasKey(Allocation(plan), "total")
    /\ Allocation(plan).v["total"] # JFloat(Budget)
    /\ Budget = DDivInt(DFromInt(5487988), 100)
    /\ Allocation(Repaired).v["total"] = JFloat(Budget)

\* C2: with budget_allocation absent from the reply, the four components are
\* 0.15, 0.25, 0.50 and 0.10 of the budget B, they sum to exactly B, and
\* total is B.
C2_AbsentAllocationSplitsExactly ==
    (pc = "done" /\ ~HasKey(plan, "budget_allocation")) =>
        LET ba == Allocation(Repaired)
        IN  /\ ba.v["rnd_research"] = JFloat(DMul(Budget, RndShare))
            /\ ba.v["content_creation"] = JFloat(DMul(Budget, ContentShare))
            /\ ba.v["ads_paid"] = JFloat(DMul(Budget, AdsShare))
            /\ ba.v["tools_tech"] = JFloat(DMul(Budget, ToolsShare))
            /\ ComponentSum(ba) = Budget
            /\ ba.v["total"] = JFloat(Budget)

\* The claim's words for a defective phases value: absent, no list, or a list
\* of fewer than three entries.
DefectivePhases(p) ==
    \/ ~HasKey(p, "phases")
    \/ p.v["phases"].k # "list"
    \/ Len(p.v["phases"].v) < 3

\* C3: a reply whose phases are absent, no list, empty or fewer than three
\* is repaired to exactly the fixed three-phase fallback.
C3_DefectivePhasesReplaced ==
    (pc = "done" /\ DefectivePhases(plan)) =>
        /\ Repaired.v["phases"] = FallbackPhases
        /\ Len(Repaired.v["phases"].v) = 3
        /\ Repaired.v["phases"].v[1].v["name"] = S("Research & Planning")
        /\ Repaired.v["phases"].v[2].v["name"] = S("Content Creation")
        /\ Repaired.v["phases"].v[3].v["name"] = S("Campaign Execution")
        /\ SumDays(Repaired.v["phases"].v) = 3 + 5 + 6

\* C3 witness: the model returned two phases of its own and the repair
\* returned the fallback, none of the two in it.
C3_Witness ==
    /\ pc = "done"
    /\ HasKey(plan, "phases")
    /\ plan.v["phases"] = ModelPhases(2)
    /\ Repaired.v["phases"] = FallbackPhases
    /\ \A i \in 1..3 : \A j \in 1..2 :
          Repaired.v["phases"].v[i] # plan.v["phases"].v[j]

\* C4: a reply with three or more well-formed phases keeps its phase list.
C4_SoundPhasesKept ==
    (pc = "done" /\ ~DefectivePhases(plan)) =>
        Repaired.v["phases"] = plan.v["phases"]

\* C4 witness: replies of exactly three and of four phases, kept as returned.
C4_Witness ==
    /\ pc = "done"
    /\ HasKey(plan, "phases")
    /\ plan.v["phases"].k = "list"
    /\ Len(plan.v["phases"].v) = 3
    /\ plan.v["phases"] # FallbackPhases
    /\ Repaired.v["phases"] = plan.v["phases"]

\* C5: after the repair, timeline_days is the sum of the phases' duration_days.
C5_TimelineIsSumOfDurations ==
    pc = "done" =>
        Repaired.v["timeline_days"] = JInt(SumDays(Repaired.v["phases"].v))

\* C6 as stated: after the repair the four components sum to total.
C6_ComponentsSumToTotal ==
    pc = "done" =>
        JFloat(ComponentSum(Allocation(Repaired))) = Allocation(Repaired).v["total"]

SuppliedComponent(c) ==
    /\ HasKey(plan, "budget_allocation")
    /\ IsDict(Allocation(plan))
    /\ HasKey(Allocation(plan), c)

\* C6 as amended: after the repair all four components are present, a
\* component the model supplied keeps the model's value, a missing one is the
\* budget times its fixed proportion, and total is the budget.
C6_ComponentsKeptOrDefaulted ==
    pc = "done" =>
        /\ \A i \in 1..4 :
              LET c == Components[i]
              IN  /\ HasKey(Allocation(Repaired), c)
                  /\ Allocation(Repaired).v[c] =
                        IF SuppliedComponent(c) THEN Allocation(plan).v[c]
                        ELSE JFloat(DMul(Budget, Share(c)))
        /\ Allocation(Repaired).v["total"] = JFloat(Budget)

\* C6 witness: the model supplied rnd_research alone; it is kept, the other
\* three are filled, and the four do not sum to total.
C6_Witness ==
    /\ pc = "done"
    /\ SuppliedComponent("rnd_research")
    /\ ~SuppliedComponent("ads_paid")
    /\ Allocation(Repaired).v["rnd_research"] = Allocation(plan).v["rnd_research"]
    /\ Allocation(Repaired).v["ads_paid"] = JFloat(DMul(Budget, AdsShare))
    /\ JFloat(ComponentSum(Allocation(Repaired))) # Allocation(Repaired).v["total"]

\* C7: after the repair there are at least 3 and at most 5 phases.
C7_PhaseCountWithinThreeToFive ==
    pc = "done" =>
        /\ Len(Repaired.v["phases"].v) >= 3
        /\ Len(Repaired.v["phases"].v) <= 5

\* C8: _validate_and_fix_plan never raises, whatever the reply and the
\* requirements are.
C8_RepairNeverRaises == pc # "raised"

\* C9: after the repair every top-level field of the schema is present and
\* non-empty.
C9_EveryFieldPresent ==
    pc = "done" =>
        \A key \in SchemaKeys : HasKey(Repaired, key) /\ Truthy(Repaired.v[key])

\* Ceo.py:82-114
ObjectKeys == {"kpi_targets", "risk_assessment", "rnd_params", "marketing_params"}

SubFields(key) ==
    CASE key = "kpi_targets"      -> {"leads", "conversion_rate", "roi_expected", "cac_target"}
      [] key = "risk_assessment"  -> {"high", "medium", "mitigation"}
      [] key = "rnd_params"       -> {"research_topics", "competitor_analysis", "market_research"}
      [] key = "marketing_params" -> {"campaign_type", "creative_brief", "ad_budget"}

SuppliedField(key, f) ==
    HasKey(plan, key) /\ IsDict(plan.v[key]) /\ HasKey(plan.v[key], f)

\* C10 as stated: each of the four objects has every sub-field, and a
\* sub-field the model supplied keeps the model's value.
C10_SuppliedFieldsKept ==
    pc = "done" =>
        \A key \in ObjectKeys :
            /\ IsDict(Repaired.v[key])
            /\ \A f \in SubFields(key) : HasKey(Repaired.v[key], f)
            /\ \A f \in SubFields(key) :
                  SuppliedField(key, f) => Repaired.v[key].v[f] = plan.v[key].v[f]

RiskListDefault(f) ==
    IF f = "high" THEN JList(<<S("Timeline constraints"), S("Budget limitations")>>)
    ELSE JList(<<S("Audience targeting"), S("Market competition")>>)

\* C10 as amended: each of the four objects has every sub-field; a sub-field
\* the model supplied keeps the model's value, except that a supplied but
\* empty (falsy) risk_assessment.high or risk_assessment.medium is replaced
\* by its default like a missing one; an object is never emptied.
C10_SuppliedFieldsKeptUnlessFalsyRiskList ==
    pc = "done" =>
        \A key \in ObjectKeys :
            /\ IsDict(Repaired.v[key])
            /\ \A f \in SubFields(key) : HasKey(Repaired.v[key], f)
            /\ \A f \in SubFields(key) :
                  SuppliedField(key, f) =>
                      IF key = "risk_assessment" /\ f \in {"high", "medium"}
                         /\ ~Truthy(plan.v[key].v[f])
                      THEN Repaired.v[key].v[f] = RiskListDefault(f)
                      ELSE Repaired.v[key].v[f] = plan.v[key].v[f]
            /\ (HasKey(plan, key) /\ IsDict(plan.v[key])) =>
                  DOMAIN plan.v[key].v \subseteq DOMAIN Repaired.v[key].v

\* C10 witness: the model supplied kpi_targets with leads alone; leads is
\* kept and the three missing sub-fields are filled.
C10_Witness ==
    /\ pc = "done"
    /\ SuppliedField("kpi_targets", "leads")
    /\ ~SuppliedField("kpi_targets", "roi_expected")
    /\ plan.v["kpi_targets"].v["leads"] = JInt(5)
    /\ Repaired.v["kpi_targets"].v["leads"] = JInt(5)
    /\ Repaired.v["kpi_targets"].v["roi_expected"] = S("2-3x")

\* A plan that needs no repair: every defaulted field present and truthy, three
\* or more phases, the four components, and the four objects with every
\* sub-field (the risk lists non-empty).  A false trigger flag is falsy.
Populated(p) ==
    /\ IsDict(p)
    /\ \A i \in 1..Len(DefaultKeys) : HasKey(p, DefaultKeys[i]) /\ Truthy(p.v[DefaultKeys[i]])
    /\ HasKey(p, "phases") /\ IsList(p.v["phases"]) /\ Len(p.v["phases"].v) >= 3
    /\ HasKey(p, "budget_allocation") /\ IsDict(Allocation(p))
    /\ \A i \in 1..4 : HasKey(Allocation(p), Components[i])
    /\ \A key \in ObjectKeys :
          /\ HasKey(p, key) /\ IsDict(p.v[key])
          /\ \A f \in SubFields(key) : HasKey(p.v[key], f)
    /\ Truthy(p.v["risk_assessment"].v["high"])
    /\ Truthy(p.v["risk_assessment"].v["medium"])

\* p with total and conversation_insights stamped from the inputs of the call
ReStamped(p) ==
    LET q == SetItem(p, "budget_allocation",
                     SetItem(Allocation(p), "total", JFloat(Budget)))
    IN  IF Truthy(insights) THEN SetItem(q, "conversation_insights", insights) ELSE q

\* C11: repairing a repaired plan again with the same requirements and
\* insights returns it as it is, and a populated plan comes back from its
\* first repair unchanged apart from the stamped total and insights.
C11_RepairIdempotent ==
    pc = "done" =>
        /\ validate_and_fix_plan(Repaired, requirements, insights) = Ok(Repaired)
        /\ Populated(plan) => Repaired = ReStamped(plan)

\* C11 witness: a populated reply whose total and insights were both
\* re-stamped to other values, and whose repair is a fixed point.
C11_Witness ==
    /\ pc = "done"
    /\ Populated(plan)
    /\ Truthy(insights)
    /\ HasKey(plan, "conversation_insights")
    /\ Repaired.v["conversation_insights"] # plan.v["conversation_insights"]
    /\ HasKey(Allocation(plan), "total")
    /\ Allocation(Repaired).v["total"] # Allocation(plan).v["total"]
    /\ Allocation(Repaired).v["total"] = JFloat(DFromInt(1000000))
    /\ validate_and_fix_plan(Repaired, requirements, insights) = Ok(Repaired)

\* C12: when insights were computed for the request (a history was given),
\* the repaired plan's conversation_insights is those insights, whatever the
\* plan model returned in the field.
C12_ComputedInsightsStamped ==
    (pc = "done" /\ messages # <<>>) =>
        /\ HasKey(Repaired, "conversation_insights")
        /\ Repaired.v["conversation_insights"] = insights

\* C13: a plan generated with no conversation history carries the fixed
\* no-history default object as conversation_insights.
C13_NoHistoryDefaultInsights ==
    (pc = "done" /\ messages = <<>>) =>
        /\ HasKey(Repaired, "conversation_insights")
        /\ Repaired.v["conversation_insights"] = NoHistoryInsights

\* C14: a budget text with a unit is the number left after stripping the
\* unit token, times 100,000 for lakh / lkh and times 10,000,000 for
\* cr / crore.
C14_UnitSuffixesConverted ==
    LET b == Get(requirements, "budget")
    IN  IsStr(b) =>
          LET value   == Lower(Strip(b.v))
              lkh     == <<"l", "k", "h">>
              lakh    == <<"l", "a", "k", "h">>
              cr      == <<"c", "r">>
              crore   == <<"c", "r", "o", "r", "e">>
              inLakh  == Contains(value, lkh) \/ Contains(value, lakh)
              inCrore == Contains(value, cr) \/ Contains(value, crore)
              lakhs   == PyFloat(Strip(Replace(Replace(value, lakh, <<>>), lkh, <<>>)))
              crores  == PyFloat(Strip(Replace(Replace(value, crore, <<>>), cr, <<>>)))
          IN  /\ (inLakh /\ lakhs.ok) => Budget = DMul(lakhs.v, DFromInt(100000))
              /\ (~inLakh /\ inCrore /\ crores.ok) =>
                     Budget = DMul(crores.v, DFromInt(10000000))

\* C15: safe_float returns a finite number for every input: an int as it is,
\* and the default 100,000 for an absent, null or unparseable budget.
C15_SafeFloatTotal ==
    LET b == Get(requirements, "budget")
    IN  /\ Budget.k = "fin"
        /\ b.k = "int" => Budget = DFromInt(b.v)
        /\ b.k = "null" => Budget = DFromInt(100000)
        /\ b = JStr(<<"g", "a", "r", "b", "a", "g", "e">>) => Budget = DFromInt(100000)

\* C24: when the insights call fails, the extraction raises nothing and
\* returns the fixed default object of a failed analysis, and
\* analyze_requirements goes on to the plan call with that object.
C24_InsightFailureFallsBack ==
    /\ [][ExtractInsightsFails =>
            /\ insights' = FailedInsights
            /\ result'.exc = "none"
            /\ pc' = "prompt"]_vars
    /\ []((pc \in {"prompt", "parsed", "done"} /\ messages # <<>>) =>
            /\ IsDict(insights)
            /\ insights = FailedInsights \/ Reply(insights) \in InsightReplies)

\* C24 witness: with a history, the plan call answered a call that holds the
\* default of a failed analysis.
C24_Witness ==
    /\ pc = "parsed"
    /\ messages # <<>>
    /\ insights = FailedInsights
    /\ IsDict(plan)

(***************************************************************************)
(* Properties of the server.  While a request is served and afterwards,    *)
(* request holds it; response holds the answer once it was sent.           *)
(***************************************************************************)
\* C16: a request to ceo/analyze whose plan call fails writes no project
\* record at any of its steps and is answered with status 500 and no plan.
C16_FailedCallWritesNothing ==
    [][ /\ (pc \in {"start", "prompt", "failed"} \/ pc' \in {"start", "prompt", "failed"})
              => projects' = projects
        /\ (pc = "failed" /\ request.op = "ceo_analyze" /\ pc' = "idle") =>
              /\ response'.status = 500
              /\ "body" \notin DOMAIN response'
              /\ projects' = projects ]_vars

\* C16 witness: the plan call failed for project X, the answer is the 500,
\* and the record of X is still the one with its trigger note.
C16_Witness ==
    /\ request.op = "ceo_analyze"
    /\ request.conversation_id = <<"X">>
    /\ response = HTTPException(500, "LLMError")
    /\ <<"X">> \in DOMAIN projects
    /\ projects[<<"X">>].agents_triggered # <<>>

\* The values insight extraction can return for a history.
Extractions(msgs) ==
    {extract_conversation_insights(msgs, reply) : reply \in InsightReplies \cup {CallFailed}}

\* C17: a request to ceo/analyze with a message history hands that history
\* to the plan generation, and the plan returned and persisted carries the
\* insights extracted from it.
C17_HistoryInsightsEmbedded ==
    (request.op = "ceo_analyze" /\ request.messages # <<>>) =>
        /\ pc # "idle" => messages = request.messages
        /\ response.status = 200 =>
              /\ HasKey(response.body.plan, "conversation_insights")
              /\ response.body.plan.v["conversation_insights"]
                    \in Extractions(request.messages)
              /\ projects[request.conversation_id].ceo_plan = response.body.plan

\* C18: after a successful ceo/analyze for X the record of X is the fresh
\* one (the returned plan, the request's requirements, planning_complete, no
\* trigger note), whatever record was there, and GET ceo/X returns the record.
C18_FreshRecordReplaces ==
    /\ (request.op = "ceo_analyze" /\ response.status = 200) =>
          LET id == request.conversation_id
          IN  /\ id \in DOMAIN projects
              /\ projects[id].project_id = id
              /\ projects[id].ceo_plan = response.body.plan
              /\ projects[id].requirements = request.requirements
              /\ projects[id].status = "planning_complete"
              /\ projects[id].agents_triggered = <<>>
    /\ (request.op = "get_ceo_plan" /\ request.path[2] \in DOMAIN projects) =>
          response = Returned(projects[request.path[2]])

\* C18 witness: the record that the successful request replaced had a
\* trigger note, and the record of the project has none.
C18_Witness ==
    /\ request.op = "ceo_analyze"
    /\ response.status = 200
    /\ replaced # Absent
    /\ replaced.agents_triggered # <<>>
    /\ replaced.project_id = request.conversation_id
    /\ projects[request.conversation_id].agents_triggered = <<>>

C20_StatusReportsLiveness ==
    ("path" \in DOMAIN request /\ request.path = <<<<"ceo">>, <<"status">>>>) =>
        /\ request.op = "ceo_status"
        /\ response.status = 200
        /\ response.body.status = "online"
        /\ response.body.model = MODEL

C23_UnknownProjectTriggerIs404 ==
    (/\ request.op \in {"trigger_rnd_agent", "trigger_marketing_agent"}
     /\ request.project_id \notin DOMAIN projects) =>
        response.status = 404

\* C26: the repaired plan never holds a false should_trigger_rnd or
\* should_trigger_marketing, so rnd_trigger and marketing_trigger are truthy
\* in every successful response of ceo/analyze.
C26_TriggerFlagsNeverFalse ==
    /\ pc = "done" =>
          /\ HasKey(Repaired, "should_trigger_rnd")
          /\ HasKey(Repaired, "should_trigger_marketing")
          /\ Truthy(Repaired.v["should_trigger_rnd"])
          /\ Truthy(Repaired.v["should_trigger_marketing"])
    /\ (request.op = "ceo_analyze" /\ response.status = 200) =>
          /\ Truthy(response.body.rnd_trigger)
          /\ Truthy(response.body.marketing_trigger)
          /\ response.body.rnd_trigger = response.body.plan.v["should_trigger_rnd"]
          /\ response.body.marketing_trigger =
                 response.body.plan.v["should_trigger_marketing"]

\* C26 witness: the model declined both agents, and the body that ceo/analyze
\* is about to return triggers both.
C26_Witness ==
    /\ pc = "done"
    /\ request.op = "ceo_analyze"
    /\ plan.v["should_trigger_rnd"] = JBool(FALSE)
    /\ plan.v["should_trigger_marketing"] = JBool(FALSE)
    /\ AnalyzeBody(request.conversation_id, Repaired).rnd_trigger = JBool(TRUE)
    /\ AnalyzeBody(request.conversation_id, Repaired).marketing_trigger = JBool(TRUE)

\* C27: every trigger note of a project names a job record whose project_id
\* is that project and whose agent is the agent of the note, also when two
\* triggers fall in the same second.
C27_NotesNameTheirJobs ==
    \A id \in DOMAIN projects :
       \A i \in 1..Len(projects[id].agents_triggered) :
          LET note == projects[id].agents_triggered[i]
          IN  /\ note.job_id \in DOMAIN jobs
              /\ jobs[note.job_id].project_id = id
              /\ jobs[note.job_id].agent = note.agent

(***************************************************************************)
(* Properties of the customer endpoints and of the chat.                   *)
(***************************************************************************)
\* C21: GET customer/ready/{id} answers 200 with the readiness boolean for a
\* conversation the store holds and 404 for one it does not hold, and never
\* answers with a status of 500 or above.
C21_ReadyAnswersBooleanOr404 ==
    (request.op = "customer_ready_for_ceo") =>
        /\ response.status < 500
        /\ IF request.path[3] \in DOMAIN conversations
           THEN /\ response.status = 200
                /\ response.body \in BOOLEAN
           ELSE response.status = 404

\* customer.py:84-89: the keywords of a field
Keywords(field) ==
    CASE field = "product_service" -> ProductWords
      [] field = "target_audience" -> AudienceWords
      [] field = "budget"          -> BudgetWords
      [] field = "timeline"        -> TimelineWords
      [] field = "channels"        -> ChannelWords
      [] field = "goals"           -> GoalWords

\* The same character, or the same letter in the two cases.
SameLetter(a, b) ==
    \/ a = b
    \/ \E n \in 1..Len(LowerCase) : {a, b} = {LowerCase[n], UpperCase[n]}

\* The word occurs in the text at some position, whatever the case of the
\* letters.
Occurs(word, text) ==
    \E i \in 1..(Len(text) - Len(word) + 1) :
       \A j \in 1..Len(word) : SameLetter(text[i + j - 1], word[j])

\* The text of the conversation that the response of a customer endpoint
\* was computed from.
AnsweredText == JoinTexts(conversations[response.body.conversation_id].messages)

AnswersFields ==
    /\ request.op \in {"post_customer_message", "send_message",
                       "get_customer_conversation"}
    /\ response.status = 200

\* C25: the fields an endpoint reports are a function of the text of the
\* conversation: a field is "mentioned" iff one of its keywords occurs in the
\* text whatever the case, and is None otherwise; completeness is the number
\* of mentioned fields over 6; the empty text has no field and completeness 0.
C25_FieldsFollowKeywords ==
    AnswersFields =>
        LET reqs == response.body.requirements
            n    == Cardinality({f \in DOMAIN reqs.v : reqs.v[f] # None})
        IN  /\ DOMAIN reqs.v = {RequirementKeys[i] : i \in 1..FieldCount}
            /\ \A f \in DOMAIN reqs.v :
                  reqs.v[f] = IF \E w \in Keywords(f) : Occurs(w, AnsweredText)
                              THEN S("mentioned") ELSE None
            /\ response.body.completeness = DDivInt(DFromInt(n), 6)
            /\ n = 0 <=> response.body.completeness = DZero
            /\ n = 3 <=> response.body.completeness = DDivInt(DFromInt(1), 2)
            /\ AnsweredText = <<>> => n = 0

\* C25 witness: the text is a keyword of two fields typed in capitals, and
\* those two fields and no other are reported; and a conversation of empty
\* text was answered before with no field.
C25_Witness ==
    /\ request.op = "get_customer_conversation"
    /\ response.status = 200
    /\ AnsweredText = <<"L","A","U","N","C","H">>
    /\ {f \in DOMAIN response.body.requirements.v :
           response.body.requirements.v[f] # None} = {"product_service", "timeline"}
    /\ response.body.completeness = DDivInt(DFromInt(1), 3)
    /\ \E id \in DOMAIN conversations : JoinTexts(conversations[id].messages) = <<>>

\* The step serves a customer message, from an API client or from the chat.
MessageServed ==
    /\ served' = served + 1
    /\ request'.op \in {"post_customer_message", "send_message"}

\* The conversation that the message of the step goes to.
ServedConversation == ConvIdOf(conversations, request'.conversation_id)

\* The messages are a customer message and its reply, in turns.
Alternates(msgs) ==
    \A i \in 1..Len(msgs) :
       msgs[i].role = IF i % 2 = 1 THEN "customer" ELSE "assistant"

\* C28: when the intake call fails, the caller gets an error and the store
\* keeps the conversation, created if it was new, with the customer message
\* appended; a later message answered on that conversation leaves two customer
\* messages in a row.
C28_FailedCallKeepsMessage ==
    [][MessageServed =>
         LET id     == ServedConversation
             before == IF id \in DOMAIN conversations
                       THEN conversations[id].messages ELSE <<>>
             after  == conversations'[id].messages
         IN  /\ id \in DOMAIN conversations'
             /\ response'.status \in {200, 500}
             /\ response'.status = 500 =>
                   /\ Len(after) = Len(before) + 1
                   /\ SubSeq(after, 1, Len(before)) = before
                   /\ after[Len(after)].role = "customer"
                   /\ after[Len(after)].text = request'.text
             /\ (response'.status = 200 /\ before # <<>>
                   /\ before[Len(before)].role = "customer") =>
                   ~Alternates(after)]_vars

\* C28 witness: the first call on conversation X failed, the same text sent
\* again was answered, and the store holds the text twice before the reply.
C28_Witness ==
    /\ request.op = "post_customer_message"
    /\ request.conversation_id = <<"X">>
    /\ response.status = 200
    /\ Len(conversations[<<"X">>].messages) = 3
    /\ conversations[<<"X">>].messages[1].role = "customer"
    /\ conversations[<<"X">>].messages[2].role = "customer"
    /\ conversations[<<"X">>].messages[3].role = "assistant"
    /\ conversations[<<"X">>].messages[1].text = request.text
    /\ conversations[<<"X">>].messages[2].text = request.text

\* The fields of the text of the first n stored messages of a conversation.
StoredFields(conv, n) ==
    extract_requirements_from_text(JoinTexts(SubSeq(conv.messages, 1, n)))

\* completeness >= 0.8 for the text of the first n messages
StoredReady(conv, n) == DGe(compute_completeness(StoredFields(conv, n)), ReadyThreshold)

\* C29: a step never removes or reorders the stored messages of a
\* conversation, only appends to them; with every message appended the
\* completeness of the stored text stays or grows, and a text that is ready
\* stays ready; the completeness that customer/message reports is that of
\* the store, and ready_for_ceo is true exactly from five fields on.
C29_MessagesOnlyGrow ==
    /\ [][\A id \in DOMAIN conversations :
             /\ id \in DOMAIN conversations'
             /\ Len(conversations'[id].messages) >= Len(conversations[id].messages)
             /\ SubSeq(conversations'[id].messages, 1, Len(conversations[id].messages))
                   = conversations[id].messages]_vars
    /\ [](\A id \in DOMAIN conversations :
             LET conv == conversations[id]
             IN  \A n \in 1..Len(conv.messages) :
                    /\ DGe(compute_completeness(StoredFields(conv, n)),
                           compute_completeness(StoredFields(conv, n - 1)))
                    /\ StoredReady(conv, n - 1) => StoredReady(conv, n))
    /\ []((request.op \in {"post_customer_message", "send_message"}
              /\ response.status = 200) =>
            LET conv == conversations[response.body.conversation_id]
                all  == Len(conv.messages)
            IN  /\ response.body.completeness = compute_completeness(StoredFields(conv, all))
                /\ response.body.ready_for_ceo = StoredReady(conv, all)
                /\ response.body.ready_for_ceo <=> Collected(StoredFields(conv, all)) >= 5)

\* C29 witness: a conversation was ready after two answered messages, a third
\* message was answered on it, and it is reported ready with all six messages.
C29_Witness ==
    /\ request.op \in {"post_customer_message", "send_message"}
    /\ response.status = 200
    /\ response.body.ready_for_ceo
    /\ LET conv == conversations[response.body.conversation_id]
       IN  /\ Len(conv.messages) = 6
           /\ StoredReady(conv, 4)
           /\ ~StoredReady(conv, 2)

\* C30: after a send_message that the backend answered, every field that the
\* response reports as present is set in the requirements of the session.
C30_SessionHoldsCollectedFields ==
    (request.op = "send_message" /\ response.status = 200) =>
        \A f \in DOMAIN response.body.requirements.v :
           response.body.requirements.v[f] # None =>
              /\ HasKey(session.requirements, f)
              /\ session.requirements.v[f] = response.body.requirements.v[f]

====
